---- MODULE Spec2Model ----
(***************************************************************************)
(* Monty Hall simulator (src/src/main.rs): the trial generator             *)
(* play_single, the worker loop play, the collector thread and the         *)
(* orchestration in main.                                                  *)
(*                                                                         *)
(* The outcome channel is the external crate bufchan; the program uses it  *)
(* through clone, send, recv and drop only.  It is modelled as an          *)
(* unbounded FIFO queue whose recv yields None once the queue is empty and *)
(* no sender is alive.  The AtomicBool is one shared location: a load      *)
(* returns the latest store.                                               *)
(***************************************************************************)
EXTENDS Integers, Sequences, FiniteSets, TLC

\* ---------------------------------------------------------------- bounds
\* largest --doors value drawn for a run; --open is drawn below it
MaxDoors == 3
\* largest --doors value drawn for the trial generator alone
MaxPlayDoors == 5
\* largest value available_parallelism() is taken to return
MaxThreads == 2
\* outcomes sent in one run, all workers together
MaxSent == 2

\* usize arithmetic wraps modulo 2^64 in a release build; every door count of
\* the model is far below the narrowed modulus, so comparisons are preserved
UsizeModulus == 65536

\* Option::None of --open and of a search that finds nothing
None == -1

VARIABLES
    args,          \* Args: [doors, open, change]; run_for_seconds is drawn where it is read
    n_threads,     \* worker count (available_parallelism or 16)
    cancel,        \* Arc<AtomicBool>
    tx,            \* main's Sender is alive
    queue,         \* outcomes buffered in the channel
    mpc,           \* position of main
    threads,       \* number of worker JoinHandles main has collected / still to join
    wpc,           \* position of each worker thread
    cpc,           \* position of the collector thread
    wins,          \* collector's counter
    total,         \* collector's counter
    joined,        \* (wins, total) main got from collector_thread.join()
    summary,       \* the final "won ... times" line, once emitted
    sentTotal,     \* history: outcomes sent by all workers
    sentWins,      \* history: 'win' outcomes sent by all workers
    afterCancel,   \* history: per worker, outcomes sent while cancel was true
    phases,        \* history: phases of the run main has passed through
    doors,         \* scratch buffer of the trial generator (SpecPlay)
    res            \* what the last play_single call did (SpecPlay)

vars == <<args, n_threads, cancel, tx, queue, mpc, threads, wpc, cpc, wins, total,
          joined, summary, sentTotal, sentWins, afterCancel, phases, doors, res>>

\* ------------------------------------------------------------------ Args
ArgsSet(n) ==
    [doors : 0..n, open : {None} \cup 0..(n - 1), change : BOOLEAN]

\* self.doors - 2 underflows for doors < 2: a panic with overflow checks
\* (debug build), a wrapped value without them (release build)
OpenOverflows(a) == a.open = None /\ a.doors < 2

ArgsOpen(a) == IF a.open = None THEN (a.doors - 2) % UsizeModulus ELSE a.open

\* --------------------------------------------------------- play_single
\* Fill that leaves the buffer as the last call left it
Fill_Keeps(d) == d

\* doors.fill(false)
Fill(d) == [i \in DOMAIN d |-> FALSE]

RECURSIVE Scan_OpensPick(_, _, _, _, _, _)
\* Scan with the test `current != pick` left out
Scan_OpensPick(d, opened, current, to_open, car_pos, pick) ==
    IF ~(opened < to_open)
    THEN [doors |-> d, opened |-> opened, current |-> current, oob |-> FALSE]
    ELSE IF current # car_pos
         THEN IF current \notin DOMAIN d
              THEN [doors |-> d, opened |-> opened, current |-> current, oob |-> TRUE]
              ELSE Scan_OpensPick([d EXCEPT ![current] = TRUE], opened + 1, current + 1,
                                  to_open, car_pos, pick)
         ELSE Scan_OpensPick(d, opened, current + 1, to_open, car_pos, pick)

RECURSIVE Scan_OneMore(_, _, _, _, _, _)
\* Scan with the loop test `opened <= to_open`
Scan_OneMore(d, opened, current, to_open, car_pos, pick) ==
    IF ~(opened <= to_open)
    THEN [doors |-> d, opened |-> opened, current |-> current, oob |-> FALSE]
    ELSE IF current # car_pos /\ current # pick
         THEN IF current \notin DOMAIN d
              THEN [doors |-> d, opened |-> opened, current |-> current, oob |-> TRUE]
              ELSE Scan_OneMore([d EXCEPT ![current] = TRUE], opened + 1, current + 1,
                                to_open, car_pos, pick)
         ELSE Scan_OneMore(d, opened, current + 1, to_open, car_pos, pick)

RECURSIVE Scan(_, _, _, _, _, _)
\* the while loop of lines 47..55; result: the buffer, opened, current and
\* whether doors[current] was indexed out of bounds
Scan(d, opened, current, to_open, car_pos, pick) ==
    IF ~(opened < to_open)
    THEN [doors |-> d, opened |-> opened, current |-> current, oob |-> FALSE]
    ELSE IF current # car_pos /\ current # pick
         THEN IF current \notin DOMAIN d
              THEN [doors |-> d, opened |-> opened, current |-> current, oob |-> TRUE]
              ELSE Scan([d EXCEPT ![current] = TRUE], opened + 1, current + 1,
                        to_open, car_pos, pick)
         ELSE Scan(d, opened, current + 1, to_open, car_pos, pick)

\* Position with the test `i != pick` left out
Position_MayBePick(d, pick) ==
    LET S == {i \in DOMAIN d : ~d[i]}
    IN  IF S = {} THEN None ELSE CHOOSE i \in S : \A j \in S : i <= j

\* doors.iter().copied().enumerate().position(|(i, v)| !v && i != pick)
Position(d, pick) ==
    LET S == {i \in DOMAIN d : ~d[i] /\ i # pick}
    IN  IF S = {} THEN None ELSE CHOOSE i \in S : \A j \in S : i <= j

\* One call.  checked: the build has overflow checks.  fault names the panic
\* that ends the call, "none" when it returns; before is the buffer as the
\* call found it.
PlaySingle(a, buf, car_pos, pick, checked) ==
    LET d0 == Fill(buf)
        base == [car_pos |-> car_pos, pick |-> pick, before |-> buf, doors |-> d0,
                 opened |-> 0, current |-> 0, target |-> None, fault |-> "none",
                 won |-> FALSE]
    IN  IF a.change
        THEN IF checked /\ OpenOverflows(a)
             THEN [base EXCEPT !.fault = "overflow"]
             ELSE LET s == Scan(d0, 0, 0, ArgsOpen(a), car_pos, pick)
                      scanned == [base EXCEPT !.doors = s.doors, !.opened = s.opened,
                                              !.current = s.current]
                  IN  IF s.oob
                      THEN [scanned EXCEPT !.fault = "index"]
                      ELSE LET t == Position(s.doors, pick)
                           IN  IF t = None
                               THEN [scanned EXCEPT !.fault = "unwrap"]
                               ELSE [scanned EXCEPT !.target = t, !.won = (car_pos = t)]
        ELSE [base EXCEPT !.won = (car_pos = pick)]

NoRes ==
    [car_pos |-> None, pick |-> None, before |-> <<>>, doors |-> <<>>, opened |-> 0,
     current |-> 0, target |-> None, fault |-> "none", won |-> FALSE]

\* ------------------------------------------------------------ the run
Workers == 0..(n_threads - 1)

WorkerHoldsSender(w) == wpc[w] \in {"check", "trial"}

\* Disconnected counting main's sender only, as if the workers held no clone
Disconnected_MainOnly == ~tx

\* the channel has no sender left
Disconnected == ~tx /\ \A w \in Workers : ~WorkerHoldsSender(w)

\* main has returned Ok ("done"), returned Err through `?` ("spawn_error",
\* "read_error") or panicked; the process exits with main and takes every
\* thread with it
Ended == mpc \in {"done", "spawn_error", "read_error", "panicked"}

Alive == ~Ended

\* the phase of the run main is in (spec 4.5): Idle until the pool and the
\* collector are spawned, Running until cancel is stored, Stopping until the
\* workers are joined, Draining until the summary is emitted
PhaseOf(pc) ==
    CASE pc \in {"log", "spawn", "spawn_collector"} -> "Idle"
      [] pc \in {"wait", "store"} -> "Running"
      [] pc = "join" -> "Stopping"
      [] pc \in {"join_collector", "report"} -> "Draining"
      [] pc = "done" -> "Done"
      [] OTHER -> "Failed"

\* main moves to pc: the phase history grows when the phase changes
Goto(pc) ==
    /\ mpc' = pc
    /\ phases' = IF PhaseOf(pc) # phases[Len(phases)]
                 THEN Append(phases, PhaseOf(pc)) ELSE phases

InitRun ==
    /\ n_threads \in 1..MaxThreads
    /\ cancel = FALSE
    /\ tx = TRUE
    /\ queue = <<>>
    /\ mpc = "log"
    /\ threads = 0
    /\ wpc = [w \in 0..(MaxThreads - 1) |-> "unspawned"]
    /\ cpc = "unspawned"
    /\ wins = 0
    /\ total = 0
    /\ joined = <<>>
    /\ summary = <<>>
    /\ sentTotal = 0
    /\ sentWins = 0
    /\ afterCancel = [w \in 0..(MaxThreads - 1) |-> 0]
    /\ phases = <<"Idle">>
    /\ res = NoRes

Init ==
    /\ args \in ArgsSet(MaxDoors)
    /\ InitRun
    /\ doors = <<>>

\* ---- main, lines 78..88: the startup log evaluates args.open()
LogConfig ==
    /\ mpc = "log"
    /\ Goto("spawn")
    /\ UNCHANGED <<args, n_threads, cancel, tx, queue, threads, wpc, cpc, wins, total,
                   joined, summary, sentTotal, sentWins, afterCancel, doors, res>>

\* a build with overflow checks panics in args.open() when doors < 2
LogConfigOverflow ==
    /\ mpc = "log"
    /\ OpenOverflows(args)
    /\ Goto("panicked")
    /\ tx' = FALSE
    /\ UNCHANGED <<args, n_threads, cancel, queue, threads, wpc, cpc, wins, total,
                   joined, summary, sentTotal, sentWins, afterCancel, doors, res>>

\* ---- main, lines 90..104: one Builder::spawn of the map; the thread runs at once
SpawnWorker ==
    /\ mpc = "spawn"
    /\ threads < n_threads
    /\ wpc' = [wpc EXCEPT ![threads] = "check"]
    /\ threads' = threads + 1
    /\ UNCHANGED <<args, n_threads, cancel, tx, queue, mpc, cpc, wins, total, joined,
                   summary, sentTotal, sentWins, afterCancel, phases, doors, res>>

\* spawn returns Err: collect stops, `?` returns from main, the handles
\* collected so far are dropped (detached) and the process exits
SpawnWorkerFail ==
    /\ mpc = "spawn"
    /\ threads < n_threads
    /\ Goto("spawn_error")
    /\ tx' = FALSE
    /\ UNCHANGED <<args, n_threads, cancel, queue, threads, wpc, cpc, wins, total,
                   joined, summary, sentTotal, sentWins, afterCancel, doors, res>>

\* DropTx without the drop: main keeps its sender
DropTx_Keeps ==
    /\ mpc = "spawn"
    /\ threads = n_threads
    /\ Goto("spawn_collector")
    /\ UNCHANGED <<args, n_threads, cancel, tx, queue, threads, wpc, cpc, wins, total,
                   joined, summary, sentTotal, sentWins, afterCancel, doors, res>>

\* ---- main, line 106: drop(tx), once every worker is spawned
DropTx ==
    /\ mpc = "spawn"
    /\ threads = n_threads
    /\ tx' = FALSE
    /\ Goto("spawn_collector")
    /\ UNCHANGED <<args, n_threads, cancel, queue, threads, wpc, cpc, wins, total,
                   joined, summary, sentTotal, sentWins, afterCancel, doors, res>>

\* ---- main, lines 108..128: std::thread::spawn of the collector
SpawnCollector ==
    /\ mpc = "spawn_collector"
    /\ cpc' = "recv"
    /\ Goto("wait")
    /\ UNCHANGED <<args, n_threads, cancel, tx, queue, threads, wpc, wins, total,
                   joined, summary, sentTotal, sentWins, afterCancel, doors, res>>

\* std::thread::spawn panics when the thread cannot be created
SpawnCollectorFail ==
    /\ mpc = "spawn_collector"
    /\ Goto("panicked")
    /\ UNCHANGED <<args, n_threads, cancel, tx, queue, threads, wpc, cpc, wins, total,
                   joined, summary, sentTotal, sentWins, afterCancel, doors, res>>

\* ---- main, lines 130..136: the stop trigger.  args.run_for_seconds is read
\* here and nowhere else, so which trigger is armed is drawn here.
\* Some(v): thread::sleep returns
TriggerSleep ==
    /\ mpc = "wait"
    /\ Goto("store")
    /\ UNCHANGED <<args, n_threads, cancel, tx, queue, threads, wpc, cpc, wins, total,
                   joined, summary, sentTotal, sentWins, afterCancel, doors, res>>

\* None: read_line returns Ok
TriggerRead ==
    /\ mpc = "wait"
    /\ Goto("store")
    /\ UNCHANGED <<args, n_threads, cancel, tx, queue, threads, wpc, cpc, wins, total,
                   joined, summary, sentTotal, sentWins, afterCancel, doors, res>>

\* None: read_line returns Err, `?` returns from main and the process exits
TriggerReadFail ==
    /\ mpc = "wait"
    /\ Goto("read_error")
    /\ UNCHANGED <<args, n_threads, cancel, tx, queue, threads, wpc, cpc, wins, total,
                   joined, summary, sentTotal, sentWins, afterCancel, doors, res>>

\* Store that leaves the flag as it is
Store_Forgets ==
    /\ mpc = "store"
    /\ Goto("join")
    /\ UNCHANGED <<args, n_threads, cancel, tx, queue, threads, wpc, cpc, wins, total,
                   joined, summary, sentTotal, sentWins, afterCancel, doors, res>>

\* ---- main, line 138: cancel.store(true)
Store ==
    /\ mpc = "store"
    /\ cancel' = TRUE
    /\ Goto("join")
    /\ UNCHANGED <<args, n_threads, tx, queue, threads, wpc, cpc, wins, total,
                   joined, summary, sentTotal, sentWins, afterCancel, doors, res>>

\* JoinWorker that takes a panicked worker for a finished one (join().ok())
JoinWorker_IgnoresPanic ==
    /\ mpc = "join"
    /\ threads > 0
    /\ wpc[n_threads - threads] \in {"done", "panicked"}
    /\ threads' = threads - 1
    /\ Goto(IF threads = 1 THEN "join_collector" ELSE "join")
    /\ UNCHANGED <<args, n_threads, cancel, tx, queue, wpc, cpc, wins, total,
                   joined, summary, sentTotal, sentWins, afterCancel, doors, res>>

\* ---- main, line 139: for t in threads { t.join().expect(..) }, in spawn order
JoinWorker ==
    /\ mpc = "join"
    /\ threads > 0
    /\ wpc[n_threads - threads] = "done"
    /\ threads' = threads - 1
    /\ Goto(IF threads = 1 THEN "join_collector" ELSE "join")
    /\ UNCHANGED <<args, n_threads, cancel, tx, queue, wpc, cpc, wins, total,
                   joined, summary, sentTotal, sentWins, afterCancel, doors, res>>

\* join returns Err for a worker that panicked and expect panics in main
JoinWorkerPanicked ==
    /\ mpc = "join"
    /\ threads > 0
    /\ wpc[n_threads - threads] = "panicked"
    /\ Goto("panicked")
    /\ UNCHANGED <<args, n_threads, cancel, tx, queue, threads, wpc, cpc, wins, total,
                   joined, summary, sentTotal, sentWins, afterCancel, doors, res>>

\* JoinCollector that does not wait for the collector to return
JoinCollector_NoWait ==
    /\ mpc = "join_collector"
    /\ joined' = <<wins, total>>
    /\ Goto("report")
    /\ UNCHANGED <<args, n_threads, cancel, tx, queue, threads, wpc, cpc, wins, total,
                   summary, sentTotal, sentWins, afterCancel, doors, res>>

\* ---- main, line 140: collector_thread.join()
JoinCollector ==
    /\ mpc = "join_collector"
    /\ cpc = "returned"
    /\ joined' = <<wins, total>>
    /\ Goto("report")
    /\ UNCHANGED <<args, n_threads, cancel, tx, queue, threads, wpc, cpc, wins, total,
                   summary, sentTotal, sentWins, afterCancel, doors, res>>

\* join returns Err for a collector that panicked and expect panics in main
JoinCollectorPanicked ==
    /\ mpc = "join_collector"
    /\ cpc = "panicked"
    /\ Goto("panicked")
    /\ UNCHANGED <<args, n_threads, cancel, tx, queue, threads, wpc, cpc, wins, total,
                   joined, summary, sentTotal, sentWins, afterCancel, doors, res>>

\* (wins as f64 / total as f64) * 100.0 formatted with {:.2}: f64 division by
\* zero is NaN for 0/0 and inf otherwise; a number is kept in hundredths of a
\* percent
Percent(w, t) ==
    IF t = 0
    THEN [kind |-> IF w = 0 THEN "NaN" ELSE "inf", value |-> 0]
    ELSE [kind |-> "number", value |-> (w * 10000) \div t]

\* ---- main, line 142: the final summary
Report ==
    /\ mpc = "report"
    /\ summary' = <<[wins |-> joined[1], total |-> joined[2],
                     pct |-> Percent(joined[1], joined[2])]>>
    /\ Goto("done")
    /\ UNCHANGED <<args, n_threads, cancel, tx, queue, threads, wpc, cpc, wins, total,
                   joined, sentTotal, sentWins, afterCancel, doors, res>>

\* A spawned worker is at "check": at the head of the loop of line 66, with the
\* setup of lines 62..64 (thread_rng, Uniform::new, the buffer) done on the way
\* to its first check.  The setup touches nothing shared.

\* ---- play, line 63: Uniform::new(0, args.doors) panics on the empty range
\* 0..0; unwinding drops the sender
WorkerSetupPanic(w) ==
    /\ Alive
    /\ wpc[w] = "check"
    /\ args.doors = 0
    /\ wpc' = [wpc EXCEPT ![w] = "panicked"]
    /\ UNCHANGED <<args, n_threads, cancel, tx, queue, mpc, threads, cpc, wins, total,
                   joined, summary, sentTotal, sentWins, afterCancel, phases, doors, res>>

\* WorkerCheck with the loop test inverted: while cancel.load(..)
WorkerCheck_Inverted(w) ==
    /\ Alive
    /\ wpc[w] = "check"
    /\ args.doors > 0
    /\ IF ~cancel
       THEN wpc' = [wpc EXCEPT ![w] = "done"]
       ELSE /\ sentTotal < MaxSent
            /\ wpc' = [wpc EXCEPT ![w] = "trial"]
    /\ UNCHANGED <<args, n_threads, cancel, tx, queue, mpc, threads, cpc, wins, total,
                   joined, summary, sentTotal, sentWins, afterCancel, phases, doors, res>>

\* WorkerCheck that goes on while outcomes may still be sent, whatever the flag
WorkerCheck_SkipsFlag(w) ==
    /\ Alive
    /\ wpc[w] = "check"
    /\ args.doors > 0
    /\ IF sentTotal < MaxSent
       THEN wpc' = [wpc EXCEPT ![w] = "trial"]
       ELSE /\ cancel
            /\ wpc' = [wpc EXCEPT ![w] = "done"]
    /\ UNCHANGED <<args, n_threads, cancel, tx, queue, mpc, threads, cpc, wins, total,
                   joined, summary, sentTotal, sentWins, afterCancel, phases, doors, res>>

\* ---- play, line 66: while !cancel.load(..); on true the worker returns and
\* its sender is dropped
WorkerCheck(w) ==
    /\ Alive
    /\ wpc[w] = "check"
    /\ args.doors > 0
    /\ IF cancel
       THEN wpc' = [wpc EXCEPT ![w] = "done"]
       ELSE /\ sentTotal < MaxSent
            /\ wpc' = [wpc EXCEPT ![w] = "trial"]
    /\ UNCHANGED <<args, n_threads, cancel, tx, queue, mpc, threads, cpc, wins, total,
                   joined, summary, sentTotal, sentWins, afterCancel, phases, doors, res>>

\* bufchan::Sender::send
Send(q, won) == Append(q, won)

\* the builds a worker can be running in: one with overflow checks has
\* panicked at line 87 when args.open() overflows
Builds(a) == IF OpenOverflows(a) THEN {FALSE} ELSE BOOLEAN

\* what a call of play_single on the worker's buffer can give for a
\* configuration, <<fault, won>>, over the two draws of lines 37 and 39 and
\* the builds; an explicit function, tabulated once
TrialOutcomes ==
    [a \in ArgsSet(MaxDoors) |->
        {LET r == PlaySingle(a, [i \in 0..(a.doors - 1) |-> FALSE],
                             car_pos, pick, checked)
         IN  <<r.fault, r.won>> :
            car_pos \in 0..(a.doors - 1), pick \in 0..(a.doors - 1),
            checked \in Builds(a)}] @@ <<>>

\* ---- play, line 67: chan.send(play_single(..)); a panic in play_single
\* unwinds the worker and drops its sender.  send returns (): an outcome sent
\* after the receiver is gone is counted as sent and never received
WorkerTrial(w) ==
    /\ Alive
    /\ wpc[w] = "trial"
    /\ \E o \in TrialOutcomes[args] :
         LET fault == o[1]
             won == o[2]
         IN  IF fault # "none"
             THEN /\ wpc' = [wpc EXCEPT ![w] = "panicked"]
                  /\ UNCHANGED <<queue, sentTotal, sentWins, afterCancel>>
             ELSE /\ queue' = IF cpc = "panicked" THEN queue ELSE Send(queue, won)
                  /\ sentTotal' = sentTotal + 1
                  /\ sentWins' = sentWins + (IF won THEN 1 ELSE 0)
                  /\ afterCancel' = [afterCancel EXCEPT
                                       ![w] = @ + (IF cancel THEN 1 ELSE 0)]
                  /\ wpc' = [wpc EXCEPT ![w] = "check"]
    /\ UNCHANGED <<args, n_threads, cancel, tx, mpc, threads, cpc, wins, total,
                   joined, summary, phases, doors, res>>

\* a conversion that counts a win twice
AsUsize_Double(won) == IF won THEN 2 ELSE 0

\* won as usize
AsUsize(won) == IF won THEN 1 ELSE 0

\* bufchan::Receiver::recv returns None: nothing buffered and no sender left
RecvNone == queue = <<>> /\ Disconnected

\* ---- collector, lines 115..117: Some(won) = rx.recv()
CollectorRecv ==
    /\ Alive
    /\ cpc = "recv"
    /\ queue # <<>>
    /\ wins' = wins + AsUsize(Head(queue))
    /\ total' = total + 1
    /\ queue' = Tail(queue)
    /\ UNCHANGED <<args, n_threads, cancel, tx, mpc, threads, wpc, cpc, joined,
                   summary, sentTotal, sentWins, afterCancel, phases, doors, res>>

\* CollectorReturn that leaves the loop on the flag instead of on recv's None
CollectorReturn_OnCancel ==
    /\ Alive
    /\ cpc = "recv"
    /\ cancel
    /\ cpc' = "returned"
    /\ UNCHANGED <<args, n_threads, cancel, tx, queue, mpc, threads, wpc, wins, total,
                   joined, summary, sentTotal, sentWins, afterCancel, phases, doors, res>>

\* ---- collector, lines 115, 124..126: recv is None, the thread returns (wins, total)
CollectorReturn ==
    /\ Alive
    /\ cpc = "recv"
    /\ RecvNone
    /\ cpc' = "returned"
    /\ UNCHANGED <<args, n_threads, cancel, tx, queue, mpc, threads, wpc, wins, total,
                   joined, summary, sentTotal, sentWins, afterCancel, phases, doors, res>>

\* CollectorPanic that also clears the flag on its way out
CollectorPanic_ClearsFlag ==
    /\ Alive
    /\ cpc = "recv"
    /\ cpc' = "panicked"
    /\ queue' = <<>>
    /\ cancel' = FALSE
    /\ UNCHANGED <<args, n_threads, tx, mpc, threads, wpc, wins, total,
                   joined, summary, sentTotal, sentWins, afterCancel, phases, doors, res>>

\* ---- collector, lines 110, 120..121, 124: println!/print! panic when stdout
\* cannot be written and expect("could not flush") when it cannot be flushed;
\* unwinding drops the receiver and what is buffered with it
CollectorPanic ==
    /\ Alive
    /\ cpc = "recv"
    /\ cpc' = "panicked"
    /\ queue' = <<>>
    /\ UNCHANGED <<args, n_threads, cancel, tx, mpc, threads, wpc, wins, total,
                   joined, summary, sentTotal, sentWins, afterCancel, phases, doors, res>>

Next ==
    \/ LogConfig
    \/ LogConfigOverflow
    \/ SpawnWorker
    \/ SpawnWorkerFail
    \/ DropTx
    \/ SpawnCollector
    \/ SpawnCollectorFail
    \/ TriggerSleep
    \/ TriggerRead
    \/ TriggerReadFail
    \/ Store
    \/ JoinWorker
    \/ JoinWorkerPanicked
    \/ JoinCollector
    \/ JoinCollectorPanicked
    \/ Report
    \/ \E w \in Workers : WorkerSetupPanic(w)
    \/ \E w \in Workers : WorkerCheck(w)
    \/ \E w \in Workers : WorkerTrial(w)
    \/ CollectorRecv
    \/ CollectorReturn
    \/ CollectorPanic

Spec == Init /\ [][Next]_vars

\* ---- fair scheduling: a thread that can take a step takes one.  The stop
\* trigger and the failures (spawn, read_line, stdout) are left to the
\* environment.
MainStep ==
    \/ LogConfig
    \/ SpawnWorker
    \/ DropTx
    \/ SpawnCollector
    \/ Store
    \/ JoinWorker
    \/ JoinWorkerPanicked
    \/ JoinCollector
    \/ JoinCollectorPanicked
    \/ Report

WorkerStep(w) == WorkerSetupPanic(w) \/ WorkerCheck(w) \/ WorkerTrial(w)

CollectorStep == CollectorRecv \/ CollectorReturn

SpecFair ==
    /\ Spec
    /\ WF_vars(MainStep)
    /\ \A w \in 0..(MaxThreads - 1) : WF_vars(WorkerStep(w))
    /\ WF_vars(CollectorStep)

\* ------------------------------------------- the trial generator alone
\* one thread calling play_single over and over on its scratch buffer
InitPlay ==
    /\ args \in ArgsSet(MaxPlayDoors)
    /\ InitRun
    /\ doors = [i \in 0..(args.doors - 1) |-> FALSE]

\* ---- play_single, lines 35..59, with the draws of lines 37 and 39
PlaySingleCall ==
    /\ res.fault = "none"
    /\ \E car_pos \in 0..(args.doors - 1), pick \in 0..(args.doors - 1), checked \in BOOLEAN :
         LET r == PlaySingle(args, doors, car_pos, pick, checked)
         IN  /\ res' = r
             /\ doors' = r.doors
    /\ UNCHANGED <<args, n_threads, cancel, tx, queue, mpc, threads, wpc, cpc, wins, total,
                   joined, summary, sentTotal, sentWins, afterCancel, phases>>

NextPlay == PlaySingleCall

SpecPlay == InitPlay /\ [][NextPlay]_vars

\* ------------------------------------------------------------ claims
\* doorCount >= 3 and doorsOpenedByHost <= doorCount - 2
ValidConfig(a) == a.doors >= 3 /\ ArgsOpen(a) <= a.doors - 2

\* doorCount < 3, or doorsOpenedByHost > doorCount - 2
InvalidConfig(a) == a.doors < 3 \/ (a.open # None /\ a.open > a.doors - 2)

Finished(w) == wpc[w] \in {"done", "panicked"}

\* C1: the (wins, total) pair the collector returns to main is exactly the
\* number of 'win' outcomes sent and the number of outcomes sent by all workers
C1_ExactlyOnce ==
    joined # <<>> => joined = <<sentWins, sentTotal>>

C1_Witness ==
    /\ joined # <<>>
    /\ n_threads = 2
    /\ joined[2] >= 2
    /\ joined[1] >= 1
    /\ joined[1] < joined[2]

\* C2: the collector has returned only when nothing is buffered, no sender
\* is left and every worker has finished
C2_ReturnsOnlyDrained ==
    cpc = "returned" =>
        /\ queue = <<>>
        /\ ~tx
        /\ \A w \in Workers : Finished(w)

\* the flag was set while an outcome was still to be queued, and the collector
\* counted it before returning
C2_Witness ==
    /\ cpc = "returned"
    /\ \E w \in Workers : afterCancel[w] = 1
    /\ total = 2

\* C3: once the flag is set a worker sends at most one further outcome, a
\* worker at its loop check starts no further trial (its next step leaves the
\* loop), and every outcome sent is counted by the time the collector returns
C3_ExitWithinOneTrial ==
    /\ [](\A w \in Workers : afterCancel[w] <= 1)
    /\ [](cpc = "returned" => total = sentTotal)
    /\ [][\A w \in Workers :
            (cancel /\ wpc[w] = "check" /\ wpc'[w] # wpc[w])
                => wpc'[w] \in {"done", "panicked"}]_vars

C3_Witness ==
    /\ cancel
    /\ \E w \in Workers : afterCancel[w] = 1 /\ wpc[w] = "done"
    /\ cpc = "returned"
    /\ total = sentTotal

\* C4 (as claimed): with an invalid configuration no worker and no collector
\* is ever spawned and no trial is run
C4_InvalidConfigRejected ==
    InvalidConfig(args) =>
        /\ \A w \in Workers : wpc[w] = "unspawned"
        /\ cpc = "unspawned"
        /\ sentTotal = 0

\* C5 (as claimed): a run that ends with zero trials reports "no data", not
\* the quotient wins / total; stated for valid configurations, where it
\* already fails
C5_NoDataReport ==
    (ValidConfig(args) /\ mpc = "done" /\ joined[2] = 0)
        => summary[1].pct.kind = "no data"

Called == res.car_pos # None

Opened(d) == {i \in DOMAIN d : d[i]}

\* C6: for a valid configuration with the switch strategy the call returns
\* having marked at most ArgsOpen doors, neither car_pos nor pick among them,
\* and the switch target is an unmarked door other than pick
C6_HostAndSwitchTarget ==
    (ValidConfig(args) /\ args.change /\ Called) =>
        /\ res.fault = "none"
        /\ Cardinality(Opened(doors)) <= ArgsOpen(args)
        /\ res.car_pos \notin Opened(doors)
        /\ res.pick \notin Opened(doors)
        /\ res.target \in DOMAIN doors
        /\ res.target \notin Opened(doors)
        /\ res.target # res.pick

C6_Witness ==
    /\ ValidConfig(args) /\ args.change /\ Called
    /\ args.doors = 5
    /\ Cardinality(Opened(doors)) = 2
    /\ res.car_pos # res.pick
    /\ res.target > 1

\* the draws for which a call on configuration a returns a win
WinningDraws(a) ==
    {cp \in (0..(a.doors - 1)) \X (0..(a.doors - 1)) :
        LET r == PlaySingle(a, [i \in 0..(a.doors - 1) |-> FALSE], cp[1], cp[2], FALSE)
        IN  r.fault = "none" /\ r.won}

\* C7: with doorsOpenedByHost = doorCount - 2, stay wins exactly when
\* car_pos = pick and switch exactly when car_pos # pick; of the doorCount^2
\* draws, switch wins doorCount * (doorCount - 1) and stay doorCount
C7_StayAndSwitchOdds ==
    (args.doors >= 3 /\ ArgsOpen(args) = args.doors - 2) =>
        /\ Called =>
              /\ res.fault = "none"
              /\ res.won = (IF args.change THEN res.car_pos # res.pick
                                           ELSE res.car_pos = res.pick)
        /\ Cardinality(WinningDraws(args)) =
              (IF args.change THEN args.doors * (args.doors - 1) ELSE args.doors)

C7_Witness ==
    /\ args.doors = 5 /\ ArgsOpen(args) = 3 /\ args.change
    /\ Called
    /\ res.won
    /\ res.pick < res.car_pos

InPhases(ph) == \E i \in 1..Len(phases) : phases[i] = ph

\* C8 (as claimed): whenever the program has ended, it has passed through
\* Stopping; stated for valid configurations, where it already fails
C8_EndsOnlyAfterStopping ==
    (ValidConfig(args) /\ Ended) => InPhases("Stopping")

\* C8 (amended): Done is reached only through Idle, Running, Stopping and
\* Draining in this order, and the summary is emitted only after the
\* collector has returned and has been joined
C8_DoneOnlyAfterStopping ==
    /\ mpc = "done" =>
          /\ phases = <<"Idle", "Running", "Stopping", "Draining", "Done">>
          /\ cancel
    /\ summary # <<>> =>
          /\ cpc = "returned"
          /\ joined = <<wins, total>>
          /\ summary[1].total = total

C8_Witness ==
    /\ mpc = "done"
    /\ summary # <<>>
    /\ summary[1].total = 2
    /\ ValidConfig(args)

C10_SpawnFailureBeforeAnyTrial ==
    (ValidConfig(args) /\ mpc = "spawn_error") => sentTotal = 0

\* C11: once a worker or the collector has panicked no summary is emitted and
\* main never returns Ok, the panicked thread stays panicked (no restart), and
\* main's join of a panicked thread ends main by a panic
C11_AbnormalTerminationIsFatal ==
    /\ []((cpc = "panicked" \/ \E w \in Workers : wpc[w] = "panicked")
            => (summary = <<>> /\ joined = <<>> /\ mpc \notin {"report", "done"}))
    /\ [][/\ \A w \in Workers : wpc[w] = "panicked" => wpc'[w] = "panicked"
          /\ cpc = "panicked" => cpc' = "panicked"]_vars
    /\ [][(/\ mpc = "join"
           /\ wpc[n_threads - threads] = "panicked"
           /\ mpc' # mpc) => mpc' = "panicked"]_vars
    /\ [][(/\ mpc = "join_collector"
           /\ cpc = "panicked"
           /\ mpc' # mpc) => mpc' = "panicked"]_vars

\* a worker panicked in its first trial and main's join of it failed, the
\* collector having panicked as well
C11_Witness ==
    /\ mpc = "panicked"
    /\ cancel
    /\ threads > 0
    /\ wpc[n_threads - threads] = "panicked"
    /\ cpc = "panicked"
    /\ summary = <<>>

\* C12: the flag is false until main's store, only main's store at line 138
\* changes it, and it never goes from true to false
C12_FlagMonotonic ==
    /\ [](mpc \in {"log", "spawn", "spawn_collector", "wait", "store"} => ~cancel)
    /\ [][cancel => cancel']_vars
    /\ [][cancel' # cancel =>
            /\ mpc = "store" /\ mpc' = "join"
            /\ wpc' = wpc /\ cpc' = cpc]_vars

C12_Witness ==
    /\ cancel
    /\ mpc = "done"
    /\ \A w \in Workers : wpc[w] = "done"
    /\ cpc = "returned"

\* what a call lets its caller see: the outcome, or the panic
Outcome(r) == <<r.fault, r.won>>

Fresh(a) == [i \in 0..(a.doors - 1) |-> FALSE]

\* C13: for the same configuration, build and draws a call on the buffer as
\* earlier calls left it gives the outcome of a call on a fresh buffer, and
\* so did the last call made
C13_Deterministic ==
    /\ \A car_pos \in 0..(args.doors - 1), pick \in 0..(args.doors - 1), checked \in BOOLEAN :
          Outcome(PlaySingle(args, doors, car_pos, pick, checked))
            = Outcome(PlaySingle(args, Fresh(args), car_pos, pick, checked))
    /\ Called =>
          \E checked \in BOOLEAN :
              Outcome(res) = Outcome(PlaySingle(args, Fresh(args), res.car_pos,
                                                res.pick, checked))

\* a call that found doors marked by the call before it
C13_Witness ==
    /\ Called
    /\ ValidConfig(args) /\ args.change
    /\ \E i \in DOMAIN res.before : res.before[i] /\ ~res.doors[i]
    /\ res.target \in Opened(res.before)
    /\ res.won

LossesIn(q) == Cardinality({i \in 1..Len(q) : ~q[i]})

\* C14: 0 <= wins <= total; total - wins is the number of 'loss' outcomes
\* received (those sent less those still buffered); a step that changes a
\* counter receives one outcome, adds 1 to total and adds 1 to wins exactly
\* when the outcome is a win
C14_TotalIsWinsPlusLosses ==
    /\ [](0 <= wins /\ wins <= total)
    /\ [](cpc # "panicked" =>
             total - wins = (sentTotal - sentWins) - LossesIn(queue))
    /\ [][(total' # total \/ wins' # wins) =>
            /\ queue # <<>>
            /\ queue' = Tail(queue)
            /\ total' = total + 1
            /\ wins' = wins + (IF Head(queue) THEN 1 ELSE 0)]_vars

C14_Witness ==
    /\ total = 2
    /\ wins = 1
    /\ cpc = "recv"

\* C15 (as claimed): a worker leaves a trial only by sending its outcome and
\* going back to the loop check
C15_TrialAlwaysSent ==
    [][\A w \in Workers :
         (wpc[w] = "trial" /\ wpc'[w] # "trial")
             => (wpc'[w] = "check" /\ sentTotal' = sentTotal + 1)]_vars

SomeThreadPanicked == cpc = "panicked" \/ \E w \in Workers : wpc[w] = "panicked"

\* C16 (as claimed): under fair scheduling, once the stop trigger has fired
\* the run reaches Done; stated for valid configurations, where it already
\* fails
C16_TriggerLeadsToDone ==
    (ValidConfig(args) /\ mpc = "store") ~> (mpc = "done")

\* C16 (amended): under fair scheduling, once the stop trigger has fired the
\* run ends: it reaches Done with the summary emitted, every worker exited,
\* the channel closed and drained and the collector returned, or main panics
\* on the join of a thread that has panicked; no thread stays blocked
C16_TriggerLeadsToEnd ==
    (mpc = "store") ~>
        \/ /\ mpc = "done"
           /\ summary # <<>>
           /\ \A w \in Workers : wpc[w] = "done"
           /\ queue = <<>> /\ Disconnected
           /\ cpc = "returned"
        \/ /\ mpc = "panicked"
           /\ SomeThreadPanicked

C16_Witness ==
    /\ mpc = "done"
    /\ summary # <<>>
    /\ n_threads = 2
    /\ \E w \in Workers : afterCancel[w] = 1
    /\ summary[1].total = 2

\* C17: with a valid configuration every spawned worker holds its sender
\* while the flag is false, so the collector has returned only with the flag set
C17_NoClosureBeforeCancel ==
    ValidConfig(args) =>
        /\ ~cancel => \A w \in Workers : wpc[w] \in {"unspawned", "check", "trial"}
        /\ cpc = "returned" => cancel

\* main has dropped its sender, nothing is buffered, the flag is false: the
\* collector waits on a channel that the workers keep open
C17_Witness ==
    /\ ValidConfig(args)
    /\ ~tx /\ ~cancel
    /\ cpc = "recv"
    /\ queue = <<>>
    /\ total = 2
    /\ ~RecvNone

====
